---- MODULE Spec2Model ----
(***************************************************************************)
(* A model of the rayts drawing and ray-casting code: the colour           *)
(* constructors, pixel/column/line drawing into an ImageData framebuffer,  *)
(* Bresenham's line loop, and render/cast.                                 *)
(*                                                                         *)
(* Numbers.  Screen coordinates, colour channels and byte offsets are      *)
(* integers.  The few real-valued quantities of render (angles, distance,  *)
(* column height) are fixed-point: angles in milliradians, everything     *)
(* else in thousandths, with a separate flag for Infinity.                 *)
(***************************************************************************)
EXTENDS Integers, Sequences, FiniteSets, TLC

VARIABLES
    pc,      \* position of the modelled caller: "call", "loop", "done"
    call,    \* the operation being applied and its arguments
    ret,     \* what the operation returned (or that it threw)
    fbuf,    \* the ImageData: width, height and the bytes written so far
    before,  \* fbuf.data as it was when the operation started
    plots,   \* the points handed to pixel() by the operation, in order
    bres,    \* bresenham's locals
    rnd      \* render's locals

vars == <<pc, call, ret, fbuf, before, plots, bres, rnd>>

None == [none |-> TRUE]

(***************************************************************************)
(* Colours                                                                 *)
(***************************************************************************)

\* x & 0xff on a 32-bit integer: the low eight bits (two's complement).
And255(x) == x % 256

colorRGBA(r, g, b, a) == <<And255(r), And255(g), And255(b), And255(a)>>

\* The default value of the parameter a of colorRGBA and colorHex.
DefaultAlpha == 255

ColorBlack == colorRGBA(0, 0, 0, DefaultAlpha)

ColorDefault == ColorBlack

\* The characters the character class [0-9a-f] matches under the i flag.
HexChars ==
    {"0", "1", "2", "3", "4", "5", "6", "7", "8", "9",
     "a", "b", "c", "d", "e", "f", "A", "B", "C", "D", "E", "F"}

\* /^#([0-9a-f]{6})$/i : the captured group, or None when there is no match.
\* A string is a sequence of one-character strings.
HexMatch_noend(hex) ==
    IF /\ Len(hex) >= 7
       /\ hex[1] = "#"
       /\ \A i \in 2..7 : hex[i] \in HexChars
    THEN [none |-> FALSE, group |-> SubSeq(hex, 2, 7)]
    ELSE [none |-> TRUE, group |-> <<>>]
HexMatch(hex) ==
    IF /\ Len(hex) = 7
       /\ hex[1] = "#"
       /\ \A i \in 2..7 : hex[i] \in HexChars
    THEN [none |-> FALSE, group |-> SubSeq(hex, 2, 7)]
    ELSE [none |-> TRUE, group |-> <<>>]

\* The value parseInt gives one hexadecimal digit.
DigitVal(c) ==
    CASE c = "0" -> 0 [] c = "1" -> 1 [] c = "2" -> 2 [] c = "3" -> 3
      [] c = "4" -> 4 [] c = "5" -> 5 [] c = "6" -> 6 [] c = "7" -> 7
      [] c = "8" -> 8 [] c = "9" -> 9
      [] c \in {"a", "A"} -> 10 [] c \in {"b", "B"} -> 11
      [] c \in {"c", "C"} -> 12 [] c \in {"d", "D"} -> 13
      [] c \in {"e", "E"} -> 14 [] c \in {"f", "F"} -> 15

\* parseInt(s, 16) of a string of hexadecimal digits.
RECURSIVE ParseInt16(_)
ParseInt16(s) ==
    IF s = <<>> THEN 0
    ELSE 16 * ParseInt16(SubSeq(s, 1, Len(s) - 1)) + DigitVal(s[Len(s)])

\* (rgb & mask) >> shift for mask = 0xff << shift.
MaskShift(rgb, shift) == (rgb \div (2 ^ shift)) % 256

\* colorHex: [threw, error, color].
colorHex(hex, a) ==
    LET match == HexMatch(hex) IN
    IF match.none
    THEN [threw |-> TRUE, error |-> "invalid hex value", color |-> <<>>]
    ELSE LET rgb == ParseInt16(match.group) IN
         [threw |-> FALSE, error |-> "",
          color |-> colorRGBA(MaskShift(rgb, 16), MaskShift(rgb, 8),
                              MaskShift(rgb, 0), a)]

(***************************************************************************)
(* The colour specification: one call of colorRGBA or colorHex on inputs   *)
(* drawn from bounded sets.                                                *)
(***************************************************************************)

\* Channel values handed to colorRGBA: inside, at and beyond both ends of
\* the byte range.
ChanInputs == {-257, -1, 0, 1, 170, 255, 256, 300}

\* Longest string handed to colorHex.
MaxHexLen == 8

HexAlphabet == {"#", "a", "F", "g"}

HexInputs == UNION {[1..n -> HexAlphabet] : n \in 0..MaxHexLen}

\* The strings of main.ts and cast.ts, and the spec's own examples.
HexLiterals ==
    {<<"#", "a", "a", "a", "a", "f", "f">>,
     <<"#", "f", "f", "a", "a", "a", "a">>,
     <<"#", "a", "a", "b", "b", "c", "c">>,
     <<"#", "0", "9", "A", "f", "1", "e">>,
     <<"#", "1", "2", "3", "4", "5">>,
     <<"1", "2", "3", "4", "5", "6", "7">>,
     <<"#", "1", "2", "3", "4", "5", "6", "7">>,
     <<" ", "#", "1", "2", "3", "4", "5", "6">>,
     <<"#", "1", "2", "3", "4", "5", "6", "\n">>,
     <<"n", "o", "t", "-", "a", "-", "c", "o", "l", "o", "r">>}

Idle == [width |-> 0, height |-> 0, data |-> <<>>]

InitColor ==
    /\ pc = "call"
    /\ \/ \E r, g, b, a \in ChanInputs :
            call = [name |-> "colorRGBA", args |-> <<r, g, b, a>>, hasA |-> TRUE]
       \/ \E r, g, b \in ChanInputs :
            call = [name |-> "colorRGBA", args |-> <<r, g, b, DefaultAlpha>>,
                    hasA |-> FALSE]
       \/ \E s \in HexInputs \cup HexLiterals :
            call = [name |-> "colorHex", args |-> s, hasA |-> FALSE]
    /\ ret = None
    /\ fbuf = Idle
    /\ before = <<>>
    /\ plots = <<>>
    /\ bres = None
    /\ rnd = None

CallColorRGBA ==
    /\ pc = "call"
    /\ call.name = "colorRGBA"
    /\ ret' = [threw |-> FALSE, error |-> "",
               color |-> colorRGBA(call.args[1], call.args[2], call.args[3],
                                   call.args[4])]
    /\ pc' = "done"
    /\ UNCHANGED <<call, fbuf, before, plots, bres, rnd>>

CallColorHex ==
    /\ pc = "call"
    /\ call.name = "colorHex"
    /\ ret' = colorHex(call.args, DefaultAlpha)
    /\ pc' = "done"
    /\ UNCHANGED <<call, fbuf, before, plots, bres, rnd>>

NextColor == CallColorRGBA \/ CallColorHex

SpecColor == InitColor /\ [][NextColor]_vars

\* The channel value x clamped to [0, 255].
Clamp255(x) == IF x < 0 THEN 0 ELSE IF x > 255 THEN 255 ELSE x

\* C8: every channel colorRGBA returns is the input clamped to [0, 255].
C8_ChannelsClamped ==
    (pc = "done" /\ call.name = "colorRGBA") =>
        \A i \in 1..4 : ret.color[i] = Clamp255(call.args[i])

\* A hexadecimal digit of either case.
IsHexDigit(c) ==
    c \in {"0", "1", "2", "3", "4", "5", "6", "7", "8", "9"}
              \cup {"a", "b", "c", "d", "e", "f"} \cup {"A", "B", "C", "D", "E", "F"}

\* '#' and then exactly six hexadecimal digits.
IsRRGGBB(s) == Len(s) = 7 /\ s[1] = "#" /\ \A i \in 2..7 : IsHexDigit(s[i])

\* The value of the two hexadecimal digits of s at i and i + 1.
PairVal(s, i) == 16 * DigitVal(s[i]) + DigitVal(s[i + 1])

\* C9: colorHex(s) succeeds exactly on '#' and six hexadecimal digits, then
\* returning colorRGBA(rr, gg, bb, 255); on any other string it throws the
\* invalid-value error and returns no colour.
C9_HexParse ==
    (pc = "done" /\ call.name = "colorHex") =>
        LET s == call.args IN
        /\ ret.threw <=> ~IsRRGGBB(s)
        /\ IsRRGGBB(s) =>
              ret.color = colorRGBA(PairVal(s, 2), PairVal(s, 4), PairVal(s, 6), 255)
        /\ ~IsRRGGBB(s) => (ret.color = <<>> /\ ret.error = "invalid hex value")

\* colorHex("#aabbcc") returned colorRGBA(0xaa, 0xbb, 0xcc, 255).
C9_Witness ==
    /\ pc = "done" /\ call.name = "colorHex"
    /\ call.args = <<"#", "a", "a", "b", "b", "c", "c">>
    /\ ~ret.threw
    /\ ret.color = <<170, 187, 204, 255>>

(***************************************************************************)
(* Fixed-point trigonometry.  Angles are in milliradians, sines and        *)
(* cosines in thousandths.  The angle is reduced to the first quadrant and *)
(* the value taken from the Taylor series around 0 of the nearer of sine   *)
(* and cosine, so that sin(0) = 0, cos(0) = 1000 and sin and cos of a      *)
(* quarter turn are 1000 and 0.                                            *)
(***************************************************************************)

HalfPi == 1571
Pi == 3142
TwoPi == 6283

\* x*x for x in thousandths, in thousandths.
Sq(x) == (x * x) \div 1000

\* cos on [0, pi/4]: 1 - x^2/2 + x^4/24 - x^6/720.
CosSeries(x) ==
    LET x2 == Sq(x) IN
    1000 - (x2 \div 2) + ((x2 * x2) \div 24000)
         - ((((x2 * x2) \div 1000) * x2) \div 720000)

\* sin on [0, pi/4]: x - x^3/6 + x^5/120.
SinSeries(x) ==
    LET x2 == Sq(x) IN
    x - ((x * x2) \div 6000) + ((((x * x2) \div 1000) * x2) \div 120000)

\* sin and cos on the first quadrant [0, pi/2].
SinQ(q) == IF q <= HalfPi \div 2 THEN SinSeries(q) ELSE CosSeries(HalfPi - q)
CosQ(q) == IF q <= HalfPi \div 2 THEN CosSeries(q) ELSE SinSeries(HalfPi - q)

\* Math.sin
Sin(angle) ==
    LET r == angle % TwoPi
        h == IF r > Pi THEN r - Pi ELSE r
        q == IF h > HalfPi THEN Pi - h ELSE h
        s == SinQ(q)
    IN IF r > Pi THEN -s ELSE s

\* Math.cos
Cos(angle) ==
    LET r == angle % TwoPi
        h == IF r > Pi THEN TwoPi - r ELSE r
    IN IF h > HalfPi THEN -CosQ(Pi - h) ELSE CosQ(h)

(***************************************************************************)
(* The framebuffer.  An ImageData is [width, height, data]; data is the    *)
(* Uint8ClampedArray of 4*width*height bytes, kept as the function from    *)
(* the offsets written so far to their bytes: createImageData zeroes the   *)
(* array, so an offset outside the function's domain holds 0.              *)
(***************************************************************************)

createImageData(w, h) == [width |-> w, height |-> h, data |-> <<>>]

DataLength(fb) == 4 * fb.width * fb.height

\* fbuf.data[o], for o inside the array.
Byte(data, o) == IF o \in DOMAIN data THEN data[o] ELSE 0

\* x | 0.  Every number that reaches it here is an integer inside the
\* 32-bit range, which the conversion leaves as it is.
Int32(x) == x

\* The offset pixel computes for point p.
PixelOffset(fb, p) == 4 * (Int32(p[1]) + fb.width * Int32(p[2]))

\* A store into a Uint8ClampedArray clamps the value to a byte.
ClampByte(x) == IF x < 0 THEN 0 ELSE IF x > 255 THEN 255 ELSE x

\* pixel() applied to every point of pts with one colour.  A store at an
\* index outside the typed array (negative, or >= length) does nothing.
\* Each call stores color[k] at offset+k for k = 0..3; all offsets are
\* multiples of four, so byte o belongs to the call with offset o - o % 4.
pixels(fb, pts, color) ==
    LET offs == {PixelOffset(fb, pts[i]) : i \in DOMAIN pts}
        hit  == {o \in UNION {{f, f + 1, f + 2, f + 3} : f \in offs} :
                    o >= 0 /\ o < DataLength(fb)}
    IN [fb EXCEPT !.data =
           [o \in (DOMAIN fb.data) \cup hit |->
               IF o \in hit THEN ClampByte(color[(o % 4) + 1])
               ELSE fb.data[o]]]

pixel(fb, p, color) == pixels(fb, <<p>>, color)

(***************************************************************************)
(* bresenham                                                               *)
(***************************************************************************)

\* "Switch coordinates so that all cases are in octants 0-3."
NeedSwap_x(a, b) == a[1] > b[1]
NeedSwap(a, b) == a[2] > b[2]

\* The initial value of the error term.
ErrInit_swapped(du, dv) == 2 * du - dv
ErrInit(du, dv) == 2 * dv - du

\* bresenham's locals when the loop is reached.  dx is its absolute value from
\* here on when the line runs right to left.
BresSetup(a0, b0) ==
    LET ai == <<Int32(a0[1]), Int32(a0[2])>>
        bi == <<Int32(b0[1]), Int32(b0[2])>>
        a  == IF NeedSwap(ai, bi) THEN bi ELSE ai
        b  == IF NeedSwap(ai, bi) THEN ai ELSE bi
        dx == b[1] - a[1]
        dy == b[2] - a[2]
        loc ==
          IF dx > 0
          THEN IF dx > dy
               THEN [u |-> a[1], du |-> dx, su |-> 1,
                     v |-> a[2], dv |-> dy, sv |-> 1, dx |-> dx]
               ELSE [u |-> a[2], du |-> dy, su |-> 1,
                     v |-> a[1], dv |-> dx, sv |-> 1, dx |-> dx]
          ELSE IF -dx > dy
               THEN [u |-> a[1], du |-> -dx, su |-> -1,
                     v |-> a[2], dv |-> dy, sv |-> 1, dx |-> -dx]
               ELSE [u |-> a[2], du |-> dy, su |-> 1,
                     v |-> a[1], dv |-> -dx, sv |-> -1, dx |-> -dx]
    IN [a |-> a, b |-> b, dx |-> loc.dx, dy |-> dy,
        u |-> loc.u, v |-> loc.v, du |-> loc.du, dv |-> loc.dv,
        su |-> loc.su, sv |-> loc.sv,
        e |-> ErrInit(loc.du, loc.dv),
        dv2mdu2 |-> 2 * loc.dv - 2 * loc.du,
        dv2 |-> 2 * loc.dv]

\* One pass through the body of while (du--), du # 0 having been tested.
BresBody(st) ==
    LET minor == st.e >= 0 IN
    [st EXCEPT !.du = st.du - 1,
               !.v = IF minor THEN st.v + st.sv ELSE st.v,
               !.e = IF minor THEN st.e + st.dv2mdu2 ELSE st.e + st.dv2,
               !.u = st.u + st.su]

\* The point the loop body plots from its locals.
BresPoint_noswap(st) == <<st.u, st.v>>
BresPoint(st) == IF st.dx > st.dy THEN <<st.u, st.v>> ELSE <<st.v, st.u>>

\* True of every value.  Testing it makes the evaluator compute v there and
\* then, which keeps the nesting of the two definitions below logarithmic
\* in the number of passes.
Evaluated(v) == v = v

\* The locals after k more passes through the body.
RECURSIVE BresAdvance(_, _)
BresAdvance(st, k) ==
    IF k = 0 THEN st
    ELSE IF k = 1 THEN BresBody(st)
    ELSE LET mid == BresAdvance(st, k \div 2) IN
         IF Evaluated(mid) THEN BresAdvance(mid, k - (k \div 2)) ELSE mid

\* The points the next k passes plot, in order.
RECURSIVE BresPasses(_, _)
BresPasses(st, k) ==
    IF k = 0 THEN <<>>
    ELSE IF k = 1 THEN <<BresPoint(BresBody(st))>>
    ELSE LET mid == BresAdvance(st, k \div 2) IN
         IF Evaluated(mid)
         THEN BresPasses(st, k \div 2) \o BresPasses(mid, k - (k \div 2))
         ELSE <<>>

\* The points the loop plots from locals st on, in order: while (du--)
\* makes one pass for each unit of du >= 0.
BresLoop(st) == BresPasses(st, st.du)

\* Every point bresenham hands to pixel, in order.
BresPoints(a, b) ==
    LET st == BresSetup(a, b) IN <<st.a>> \o BresLoop(st)

\* line: the end point b of either form.  The angle form takes the angle
\* in milliradians and the length in thousandths.
LineEnd(c) ==
    IF c.form = "points" THEN c.b
    ELSE <<c.a[1] + ((c.length * Cos(c.angle)) \div 1000000),
           c.a[2] + ((c.length * Sin(c.angle)) \div 1000000)>>

\* line: the colour drawn with.
LineColor(c) == IF c.hasColor THEN c.color ELSE ColorDefault

\* line as one step: the framebuffer after it.
line(fb, c) == pixels(fb, BresPoints(c.a, LineEnd(c)), LineColor(c))

(***************************************************************************)
(* The line specification: one call of line on a fresh framebuffer, the    *)
(* loop of bresenham taken one pass at a time.                             *)
(***************************************************************************)

\* Largest absolute coordinate of an end point.
MaxCoord == 3

Coord == (-MaxCoord)..MaxCoord

\* The spec's own examples, beyond the coordinate bound.
LineExamples ==
    {<<<<0, 0>>, <<10, 0>>>>, <<<<0, 0>>, <<0, 10>>>>, <<<<0, 0>>, <<5, 5>>>>,
     <<<<10, 0>>, <<0, 0>>>>, <<<<0, 10>>, <<0, 0>>>>, <<<<5, 5>>, <<0, 0>>>>}

\* main.ts draws its angle-form lines at 0, 0.5, 1, ... < 2*pi.
LineAngles == {500 * k : k \in 0..12}

\* The colour "#aaaaff" that render draws its lines with.
DebugColor == colorHex(<<"#", "a", "a", "a", "a", "f", "f">>, DefaultAlpha).color

PointsCall(a, b, hasColor) ==
    [name |-> "line", form |-> "points", a |-> a, b |-> b, angle |-> 0,
     length |-> 0, hasColor |-> hasColor, color |-> DebugColor]

AngleCall(a, angle, length, hasColor) ==
    [name |-> "line", form |-> "angle", a |-> a, b |-> a, angle |-> angle,
     length |-> length, hasColor |-> hasColor, color |-> DebugColor]

InitLine ==
    /\ pc = "call"
    /\ \/ \E ax, ay, bx, by \in Coord, hc \in BOOLEAN :
            call = PointsCall(<<ax, ay>>, <<bx, by>>, hc)
       \/ \E e \in LineExamples : call = PointsCall(e[1], e[2], FALSE)
       \/ \E angle \in LineAngles, len \in 1..MaxCoord :
            call = AngleCall(<<1, 1>>, angle, 1000 * len + 500, FALSE)
    /\ ret = None
    /\ fbuf = createImageData(4, 3)
    /\ before = <<>>
    /\ plots = <<>>
    /\ bres = None
    /\ rnd = None

\* line up to bresenham's loop: the end point and the colour are settled,
\* the locals set up and the first point plotted.
LineCall ==
    /\ pc = "call"
    /\ call.name = "line"
    /\ LET st == BresSetup(call.a, LineEnd(call)) IN
       /\ bres' = st
       /\ plots' = <<st.a>>
       /\ fbuf' = pixel(fbuf, st.a, LineColor(call))
    /\ before' = fbuf.data
    /\ pc' = "loop"
    /\ UNCHANGED <<call, ret, rnd>>

\* while (du--) with du # 0: one pass through the body.
BresIter ==
    /\ pc = "loop"
    /\ bres.du # 0
    /\ bres' = BresBody(bres)
    /\ plots' = Append(plots, BresPoint(bres'))
    /\ fbuf' = pixel(fbuf, BresPoint(bres'), LineColor(call))
    /\ UNCHANGED <<pc, call, ret, before, rnd>>

\* while (du--) with du = 0: the loop ends, du having been decremented.
BresExit ==
    /\ pc = "loop"
    /\ bres.du = 0
    /\ bres' = [bres EXCEPT !.du = bres.du - 1]
    /\ pc' = "done"
    /\ UNCHANGED <<call, ret, fbuf, before, plots, rnd>>

NextLine == LineCall \/ BresIter \/ BresExit

SpecLine == InitLine /\ [][NextLine]_vars

Range(f) == {f[i] : i \in DOMAIN f}

Abs(x) == IF x < 0 THEN -x ELSE x

Max(x, y) == IF x > y THEN x ELSE y

Min(x, y) == IF x < y THEN x ELSE y

LineDone == pc = "done" /\ call.name = "line"

\* C1: the points line(a, b) plots are, as a set, the points line(b, a)
\* plots, and the two leave the same framebuffer.
C1_DirectionSymmetric ==
    (LineDone /\ call.form = "points") =>
        LET rev == PointsCall(call.b, call.a, call.hasColor) IN
        /\ Range(plots) = Range(BresPoints(rev.a, rev.b))
        /\ fbuf = line(createImageData(fbuf.width, fbuf.height), rev)

\* A line that is not horizontal was drawn from its lower end point: the
\* end points were swapped.
C1_Witness ==
    /\ LineDone /\ call.form = "points"
    /\ call.a = <<3, 2>> /\ call.b = <<-2, 0>>
    /\ plots[1] = call.b
    /\ Len(plots) = 6

\* The integer points on the segment from a to b.
SegmentPoints(a, b) ==
    {p \in (Min(a[1], b[1])..Max(a[1], b[1])) \X (Min(a[2], b[2])..Max(a[2], b[2])) :
        (p[1] - a[1]) * (b[2] - a[2]) = (p[2] - a[2]) * (b[1] - a[1])}

Aligned(a, b) ==
    \/ a[1] = b[1]
    \/ a[2] = b[2]
    \/ Abs(b[1] - a[1]) = Abs(b[2] - a[2])

\* C2: a horizontal, vertical or exactly diagonal line plots the integer
\* points of its segment, each once, and nothing else.
C2_AlignedExact ==
    (LineDone /\ Aligned(call.a, LineEnd(call))) =>
        /\ Range(plots) = SegmentPoints(call.a, LineEnd(call))
        /\ Len(plots) = Cardinality(SegmentPoints(call.a, LineEnd(call)))

\* The diagonal of the spec, drawn; a diagonal running right to left and a
\* vertical line are among the reachable cases as well.
C2_Witness ==
    /\ LineDone
    /\ call.a = <<0, 0>> /\ call.b = <<5, 5>>
    /\ plots = <<<<0, 0>>, <<1, 1>>, <<2, 2>>, <<3, 3>>, <<4, 4>>, <<5, 5>>>>

\* C3: the loop makes max(|dx|, |dy|) passes and plots one point more; the
\* first and last points are the end points; consecutive points differ by
\* one on the major axis and by at most one on the minor axis; 0 <= dv <= du.
C3_StepShape ==
    (call.name = "line" /\ pc \in {"loop", "done"}) =>
        LET a == call.a
            b == LineEnd(call)
            adx == Abs(b[1] - a[1])
            ady == Abs(b[2] - a[2])
            n == Max(adx, ady)
            major == IF adx > ady THEN 1 ELSE 2
            minor == 3 - major
            st == BresSetup(a, b)
        IN /\ st.dv >= 0 /\ st.dv <= st.du /\ st.du = n
           /\ plots[1] \in {a, b}
           /\ \A i \in 1..(Len(plots) - 1) :
                 /\ Abs(plots[i + 1][major] - plots[i][major]) = 1
                 /\ Abs(plots[i + 1][minor] - plots[i][minor]) <= 1
           /\ pc = "loop" => (bres.du >= 0 /\ (Len(plots) - 1) + bres.du = n)
           /\ pc = "done" =>
                 /\ Len(plots) = n + 1
                 /\ {plots[1], plots[Len(plots)]} = {a, b}

\* A line of mixed slope, drawn to its end: it took minor steps on some
\* passes and not on others.
C3_Witness ==
    /\ LineDone
    /\ call.a = <<-3, -1>> /\ call.b = <<2, 1>>
    /\ Len(plots) = 6
    /\ plots[1] = <<-3, -1>> /\ plots[6] = <<2, 1>>

(***************************************************************************)
(* Real numbers of render and column: thousandths, or Infinity.            *)
(***************************************************************************)

Fin(m) == [inf |-> FALSE, milli |-> m]

Infinity == [inf |-> TRUE, milli |-> 0]

(***************************************************************************)
(* column                                                                  *)
(***************************************************************************)

\* if (height > fbuf.height) height = fbuf.height
ColumnClamp_width(fb, height) ==
    IF height.inf \/ height.milli > 1000 * fb.width
    THEN Fin(1000 * fb.width) ELSE height
ColumnClamp(fb, height) ==
    IF height.inf \/ height.milli > 1000 * fb.height
    THEN Fin(1000 * fb.height) ELSE height

\* The points column hands to pixel: y starts at (fbuf.height - height) >> 1
\* (the difference truncated to an integer, then halved) and one point is
\* plotted for each integer i >= 0 below height.
ColumnPoints(fb, x, height) ==
    LET h  == ColumnClamp(fb, height)
        y0 == ((1000 * fb.height - h.milli) \div 1000) \div 2
        n  == IF h.milli <= 0 THEN 0 ELSE (h.milli + 999) \div 1000
    IN [i \in 1..n |-> <<x, y0 + (i - 1)>>]

column(fb, x, height, color) == pixels(fb, ColumnPoints(fb, x, height), color)

(***************************************************************************)
(* The drawing specification: calls of pixel, column and line, one after   *)
(* the other, on one small framebuffer.                                    *)
(***************************************************************************)

DrawColors == {ColorDefault, DebugColor}

\* Points inside the framebuffer and one step outside it on every side.
DrawPoints(fb) == ((-1)..fb.width) \X ((-1)..fb.height)

\* Heights handed to column: none, one row, a fraction, half the frame (as
\* main.ts does), the whole frame, more than the frame, Infinity.
DrawHeights(fb) ==
    {Fin(0), Fin(1000), Fin(1500), Fin(1000 * (fb.height \div 2)),
     Fin(1000 * fb.height), Fin(1000 * (fb.height + 1)), Infinity}

InitDraw ==
    /\ pc = "call"
    /\ call = None
    /\ ret = None
    /\ fbuf = createImageData(2, 2)
    /\ before = <<>>
    /\ plots = <<>>
    /\ bres = None
    /\ rnd = None

DrawPixel ==
    \E p \in DrawPoints(fbuf), color \in DrawColors :
        /\ call' = [name |-> "pixel", p |-> p, color |-> color]
        /\ before' = fbuf.data
        /\ plots' = <<p>>
        /\ fbuf' = pixel(fbuf, p, color)
        /\ pc' = "done"
        /\ UNCHANGED <<ret, bres, rnd>>

DrawColumn ==
    \E x \in {0, fbuf.width - 1, fbuf.width}, height \in DrawHeights(fbuf) :
        /\ call' = [name |-> "column", x |-> x, height |-> height,
                    color |-> ColorDefault]
        /\ before' = fbuf.data
        /\ plots' = ColumnPoints(fbuf, x, height)
        /\ fbuf' = column(fbuf, x, height, ColorDefault)
        /\ pc' = "done"
        /\ UNCHANGED <<ret, bres, rnd>>

DrawLine ==
    \E a \in {<<0, 0>>, <<1, 1>>}, b \in {<<1, 0>>, <<3, 0>>, <<0, -1>>} :
        /\ call' = PointsCall(a, b, TRUE)
        /\ before' = fbuf.data
        /\ plots' = BresPoints(a, b)
        /\ fbuf' = line(fbuf, call')
        /\ pc' = "done"
        /\ UNCHANGED <<ret, bres, rnd>>

NextDraw == DrawPixel \/ DrawColumn \/ DrawLine

SpecDraw == InitDraw /\ [][NextDraw]_vars

\* The point lies inside the framebuffer.
InFrame(fb, p) == p[1] \in 0..(fb.width - 1) /\ p[2] \in 0..(fb.height - 1)

\* C10: pixel(fbuf, (x, y), color) changes only the four bytes at offsets
\* 4*(x + width*y) .. +3, and nothing at all when (x, y) lies outside the
\* framebuffer.
C10_PixelFrame ==
    (pc = "done" /\ call.name = "pixel") =>
        LET off == 4 * (call.p[1] + fbuf.width * call.p[2]) IN
        /\ \A o \in 0..(DataLength(fbuf) - 1) :
              o \notin off..(off + 3) => Byte(fbuf.data, o) = Byte(before, o)
        /\ ~InFrame(fbuf, call.p) =>
              \A o \in 0..(DataLength(fbuf) - 1) :
                  Byte(fbuf.data, o) = Byte(before, o)

\* The first half of C10 alone, which the code keeps.
C10_OnlyThePixelsBytes ==
    (pc = "done" /\ call.name = "pixel") =>
        LET off == 4 * (call.p[1] + fbuf.width * call.p[2]) IN
        \A o \in 0..(DataLength(fbuf) - 1) :
            o \notin off..(off + 3) => Byte(fbuf.data, o) = Byte(before, o)

(***************************************************************************)
(* cast and render                                                         *)
(***************************************************************************)

Undefined == [undef |-> TRUE, milli |-> 0]

\* x / y for y # 0, in thousandths, rounded towards zero.
Quot(x, y) ==
    LET q == (Abs(x) * 1000) \div Abs(y) IN
    IF (x < 0) = (y < 0) THEN q ELSE -q

\* cast: the value returned and the locals computed on the way.  The
\* position is in whole world units, the angle in milliradians.
cast(pos, angle) ==
    LET sin == Sin(angle)
        cos == Cos(angle)
        tan == IF cos # 0 THEN [undef |-> FALSE, milli |-> Quot(sin, cos)]
               ELSE Undefined
        cot == IF sin # 0 THEN [undef |-> FALSE, milli |-> Quot(cos, sin)]
               ELSE Undefined
        tilex == Int32(pos.x \div 64)
        tiley == Int32(pos.y \div 64)
    IN [distance |-> Infinity, threw |-> FALSE,
        sin |-> sin, cos |-> cos, tan |-> tan, cot |-> cot,
        tilex |-> tilex, tiley |-> tiley]

\* The size of the canvas render draws on: whatever the page gives it.  Here
\* it is narrow, so that render's loop is short, and tall enough to hold row
\* 100, which the debug lines start from.
CanvasWidth == 8
CanvasHeight == 104

\* render's constants.
Projh == 200
Fov == 1000

\* render's locals on entering the loop (lengths in thousandths).
RenderSetup(fb, dir) ==
    LET projw == (Projh * 1000 * fb.width) \div fb.height
        tanHalf == Quot(Sin(Fov \div 2), Cos(Fov \div 2))
    IN [projw |-> projw,
        projd |-> ((projw \div 2) * 1000) \div tanHalf,
        angle |-> dir - (Fov \div 2),
        delta |-> Fov \div fb.width,
        column |-> 0,
        distance |-> None,
        corrected |-> None,
        cast |-> None,
        colCalls |-> <<>>,
        colPoints |-> {}]

\* distance !== Infinity
IsHit_always(distance) == TRUE
IsHit(distance) == ~distance.inf

\* distance * Math.cos(angle - dir), the cosine being positive.
Corrected(distance, cos) ==
    IF distance.inf THEN Infinity ELSE Fin((distance.milli * cos) \div 1000)

\* 64 / corrected * projd for corrected >= 0: dividing by zero gives
\* Infinity, dividing by Infinity gives zero.
ColumnHeight(corrected, projd) ==
    IF corrected.inf THEN Fin(0)
    ELSE IF corrected.milli = 0 THEN Infinity
    ELSE LET n == 64 * projd
             c == corrected.milli
         IN Fin((n \div c) * 1000 + ((n % c) * 1000) \div c)

\* distance === Infinity ? 100 : distance / 10
DebugLen(distance) ==
    IF distance.inf THEN 100000 ELSE distance.milli \div 10

\* The line render draws for a column.
DebugLine(angle, distance, color) ==
    [name |-> "line", form |-> "angle", a |-> <<100, 100>>, b |-> <<100, 100>>,
     angle |-> angle, length |-> DebugLen(distance), hasColor |-> TRUE,
     color |-> color]

\* One pass through render's loop for the distance cast returned.
RenderColumn(c) ==
    LET dist == c.distance
        hit == IsHit(dist)
        corr == Corrected(dist, Cos(rnd.angle - call.dir))
        hgt == ColumnHeight(corr, rnd.projd)
        fb1 == IF hit THEN column(fbuf, rnd.column, hgt, ColorDefault)
               ELSE fbuf
        hex == colorHex(<<"#", "a", "a", "a", "a", "f", "f">>, DefaultAlpha)
        dbg == DebugLine(rnd.angle, dist, hex.color)
    IN /\ before' = fbuf.data
       /\ IF hex.threw
          THEN /\ ret' = [threw |-> TRUE, error |-> hex.error]
               /\ pc' = "done"
               /\ fbuf' = fb1
               /\ plots' = <<>>
               /\ rnd' = rnd
          ELSE /\ ret' = ret
               /\ pc' = pc
               /\ fbuf' = line(fb1, dbg)
               /\ plots' = BresPoints(dbg.a, LineEnd(dbg))
               /\ rnd' = [rnd EXCEPT
                     !.distance = dist,
                     !.corrected = IF hit THEN corr ELSE None,
                     !.cast = c,
                     !.colCalls = IF hit
                                  THEN Append(@, [x |-> rnd.column,
                                                  height |-> hgt,
                                                  points |-> ColumnPoints(
                                                      fbuf, rnd.column, hgt)])
                                  ELSE @,
                     !.colPoints = IF hit
                                   THEN @ \cup Range(ColumnPoints(fbuf, rnd.column,
                                                                   hgt))
                                   ELSE @,
                     !.angle = @ + rnd.delta,
                     !.column = @ + 1]
       /\ UNCHANGED <<call, bres>>

\* The positions and directions render is called with.  main.ts looks along
\* the x axis from the origin.  The middle column's ray has the angle dir:
\* 0, a quarter, a half and three quarters of a turn put it on a grid axis.
RenderPositions == {[x |-> 0, y |-> 0], [x |-> 32, y |-> 32], [x |-> -70, y |-> 130]}

RenderDirs == {0, 1571, 3142, 4712, 300}

InitRender ==
    /\ pc = "loop"
    /\ \E pos \in RenderPositions, dir \in RenderDirs :
          call = [name |-> "render", pos |-> pos, dir |-> dir,
                  hitCols |-> {}, hitDistance |-> Infinity]
    /\ ret = [threw |-> FALSE, error |-> ""]
    /\ fbuf = createImageData(CanvasWidth, CanvasHeight)
    /\ before = <<>>
    /\ plots = <<>>
    /\ bres = None
    /\ rnd = RenderSetup(fbuf, call.dir)

\* The loop body for one column, with the distance cast returns.
RenderStep ==
    /\ pc = "loop"
    /\ rnd.column < fbuf.width
    /\ RenderColumn(cast(call.pos, rnd.angle))

\* column = fbuf.width: the loop ends and render returns.
RenderReturn ==
    /\ pc = "loop"
    /\ rnd.column >= fbuf.width
    /\ pc' = "done"
    /\ UNCHANGED <<call, ret, fbuf, before, plots, bres, rnd>>

Next == RenderStep \/ RenderReturn

Spec == InitRender /\ [][Next]_vars

\* C4: the ray cast from (32, 32) at angle 0 returns a finite distance of
\* about 32 (between 31 and 33), not Infinity.
C4_WallAhead ==
    (/\ call.name = "render" /\ rnd.column > 0
     /\ call.pos = [x |-> 32, y |-> 32]
     /\ rnd.angle - rnd.delta = 0) =>
        /\ ~rnd.cast.distance.inf
        /\ rnd.cast.distance.milli \in 31000..33000

\* C5: cast throws nothing and returns Infinity, whatever the position and
\* the angle, and render then calls draw.column for no column and throws
\* nothing either.
C5_NoHitNoColumn ==
    (call.name = "render" /\ rnd.column > 0) =>
        /\ ~ret.threw
        /\ ~rnd.cast.threw
        /\ rnd.cast.distance = Infinity
        /\ rnd.distance.inf =>
              \A i \in DOMAIN rnd.colCalls : rnd.colCalls[i].x # rnd.column - 1
        /\ pc = "done" => (rnd.colCalls = <<>> /\ rnd.colPoints = {})

\* A ray along the y axis (cosine zero, no tangent) was cast, returned
\* Infinity, and render went on without drawing a column.
C5_Witness ==
    /\ call.name = "render" /\ rnd.column > 0
    /\ rnd.cast.cos = 0 /\ rnd.cast.tan = Undefined
    /\ rnd.cast.distance = Infinity
    /\ rnd.colCalls = <<>>
    /\ ~ret.threw

(***************************************************************************)
(* render with the result of cast left open.  The grid traversal of cast   *)
(* is unwritten (its body ends in TODO notes and returns Infinity), so     *)
(* under Spec the branch of render that draws a column is never taken.     *)
(* Here the columns call.hitCols get the distance call.hitDistance in      *)
(* place of what cast returns, and every other column gets Infinity: the   *)
(* loop body of render is applied to every kind of number cast is declared *)
(* to return.                                                              *)
(***************************************************************************)

\* Distances in thousandths: zero, five units, one tile, ten tiles, far
\* away.
HitDistances == {Fin(0), Fin(5000), Fin(64000), Fin(640000), Fin(2000000)}

\* The columns that see a wall: the left ones, the middle ones, all.
HitColumns == {0..3, 2..5, 0..(CanvasWidth - 1)}

InitRenderAny ==
    /\ pc = "loop"
    /\ \E cols \in HitColumns, d \in HitDistances, dir \in {0, 3142} :
          call = [name |-> "render", pos |-> [x |-> 0, y |-> 0], dir |-> dir,
                  hitCols |-> cols, hitDistance |-> d]
    /\ ret = [threw |-> FALSE, error |-> ""]
    /\ fbuf = createImageData(CanvasWidth, CanvasHeight)
    /\ before = <<>>
    /\ plots = <<>>
    /\ bres = None
    /\ rnd = RenderSetup(fbuf, call.dir)

\* The loop body for one column, with the distance given for the column.
RenderStepAny ==
    /\ pc = "loop"
    /\ rnd.column < fbuf.width
    /\ RenderColumn([cast(call.pos, rnd.angle) EXCEPT
                        !.distance = IF rnd.column \in call.hitCols
                                     THEN call.hitDistance ELSE Infinity])

NextAny == RenderStepAny \/ RenderReturn

SpecRenderAny == InitRenderAny /\ [][NextAny]_vars

\* The last pass of the loop drew a column.
LastWasHit == call.name = "render" /\ rnd.column > 0 /\ ~rnd.distance.inf

\* C6: a column whose corrected distance is zero is drawn, without an error,
\* at a height above the framebuffer's that column clamps to it: the
\* column's pixels are rows 0 .. height-1 of that column, each once.
C6_ZeroDistanceFullColumn ==
    (LastWasHit /\ rnd.corrected = Fin(0)) =>
        LET cc == rnd.colCalls[Len(rnd.colCalls)] IN
        /\ ~ret.threw
        /\ cc.x = rnd.column - 1
        /\ cc.height.inf \/ cc.height.milli > 1000 * fbuf.height
        /\ Len(cc.points) = fbuf.height
        /\ Range(cc.points) = {<<cc.x, r>> : r \in 0..(fbuf.height - 1)}

\* A column at distance zero was drawn: the height handed over is Infinity.
C6_Witness ==
    /\ LastWasHit /\ rnd.corrected = Fin(0)
    /\ rnd.colCalls[Len(rnd.colCalls)].height = Infinity
    /\ rnd.colCalls[Len(rnd.colCalls)].x = 3

\* The colour the framebuffer holds at a point inside it.
ColorAt(fb, p) ==
    LET off == PixelOffset(fb, p) IN [k \in 1..4 |-> Byte(fb.data, off + k - 1)]

====
